---------------------------- MODULE Spec2Model ----------------------------
(***************************************************************************)
(* A model of securecam (src/main.py): the media route serve_media with    *)
(* its path resolution and format dispatch, the index cache                *)
(* get_all_camera_data with concurrent request threads, and the ffmpeg     *)
(* transcoding generator serve_media.generate.                             *)
(*                                                                         *)
(* Strings are sequences of symbols.  "/" and "." are the characters they  *)
(* name; every other symbol ("cam", "eras", "1", "0", "s", "jpg", ...)     *)
(* stands for a fixed run of characters free of "/" and ".".  No symbol is *)
(* a prefix of another one, so prefix and suffix tests on symbol sequences *)
(* agree with the same tests on characters.                                *)
(***************************************************************************)
EXTENDS Integers, Sequences, FiniteSets, TLC

VARIABLES
    \* ---- configuration, set once by init() ----
    cams_prefix,            \* global cams_prefix (--prefix / SECURECAM_PREFIX)
    host_tz,                \* the host's local time zone, as seconds east of UTC
    \* ---- the camera routes over one camera directory ----
    tree,                   \* files below the camera directory, in os.walk
                            \* order, each with its modification time
    all_data,               \* what get_all_camera_data returned, or NoData
    cpc,                    \* "disk" before indexing, "indexed", "done"
    req,                    \* the request a camera route got
    reply,                  \* what the route returned
    edits,                  \* number of changes made to the directory
    \* ---- serve_media (one request) ----
    cam_name,               \* route argument <cam_name>
    filename,               \* route argument <path:filename>
    response,               \* what the route returned
    mpc,                    \* "request" before the handler ran, "done" after
    \* ---- get_all_camera_data (request threads share the two globals) ----
    camera_data_cache,      \* global camera_data_cache: None or an index
    camera_data_cache_time, \* global camera_data_cache_time
    clock,                  \* wall clock read by datetime.now()
    disk,                   \* what is on disk under cams_directory
    tpc,                    \* per thread: position in get_all_camera_data
    tnow,                   \* per thread: local `now`
    tdata,                  \* per thread: local `camera_data`
    ttodo,                  \* per thread: rest of the os.listdir iteration
    tret,                   \* per thread: outcome of the call
    tbuild,                 \* per thread: number of the rebuild it is running
    builds,                 \* history: every rebuild started so far, with the
                            \* thread that runs it, its `now`, the state in which
                            \* it found each camera directory, whether listing
                            \* cams_directory failed and what was cached then
    \* ---- serve_media.generate (one transcoding stream) ----
    gpc,                    \* position of the generator
    proc,                   \* the ffmpeg process
    pipe,                   \* bytes in the stdout pipe, oldest first
    errpipe,                \* number of bytes in the stderr pipe
    handles,                \* which of p.stdout / p.stderr are open
    yielded,                \* chunks handed to the consumer, in order
    reads,                  \* number of p.stdout.read calls made
    cleanups,               \* number of times the finally block ran
    spawns,                 \* number of subprocess.Popen calls
    ending,                 \* why the generator left its loop
    outcome,                \* how the stream ended for the consumer
    cancelled               \* the consumer called close() on the generator

configVars == <<cams_prefix, host_tz>>
routeVars  == <<tree, all_data, cpc, req, reply, edits>>
mediaVars  == <<cam_name, filename, response, mpc>>
cacheVars  == <<camera_data_cache, camera_data_cache_time, clock, disk,
                tpc, tnow, tdata, ttodo, tret, tbuild, builds>>
streamVars == <<gpc, proc, pipe, errpipe, handles, yielded, reads,
                cleanups, spawns, ending, outcome, cancelled>>
vars == <<configVars, routeVars, mediaVars, cacheVars, streamVars>>

\* a step of one part of the program leaves the other parts alone
MediaFrame  == UNCHANGED <<configVars, routeVars, cacheVars, streamVars>>
CacheFrame  == UNCHANGED <<configVars, routeVars, mediaVars, streamVars>>
StreamFrame == UNCHANGED <<configVars, routeVars, mediaVars, cacheVars>>
RouteFrame  == UNCHANGED <<configVars, mediaVars, cacheVars, streamVars>>

-----------------------------------------------------------------------------
(* Strings and the os.path functions serve_media calls *)

Slash  == "/"
Dot    == "."
DotDot == <<".", ".">>

StartsWith(s, p) == Len(p) <= Len(s) /\ SubSeq(s, 1, Len(p)) = p
EndsWith(s, p) == Len(p) <= Len(s) /\ SubSeq(s, Len(s) - Len(p) + 1, Len(s)) = p

\* str.lower(): the only upper-case symbols of the model
LowerSym(c) == CASE c = "MKV" -> "mkv"
                 [] c = "JPG" -> "jpg"
                 [] OTHER -> c
Lower(s) == [i \in 1..Len(s) |-> LowerSym(s[i])]

\* str.split('/')
RECURSIVE SplitFrom(_, _)
SplitFrom(s, cur) ==
    IF s = <<>> THEN <<cur>>
    ELSE IF Head(s) = Slash THEN <<cur>> \o SplitFrom(Tail(s), <<>>)
    ELSE SplitFrom(Tail(s), Append(cur, Head(s)))
Split(s) == SplitFrom(s, <<>>)

\* '/'.join(comps)
RECURSIVE JoinSlash(_)
JoinSlash(comps) ==
    IF comps = <<>> THEN <<>>
    ELSE IF Len(comps) = 1 THEN comps[1]
    ELSE comps[1] \o <<Slash>> \o JoinSlash(Tail(comps))

\* the component loop of posixpath.normpath
RECURSIVE NormComps(_, _, _)
NormComps(comps, new, initial) ==
    IF comps = <<>> THEN new
    ELSE LET c == Head(comps) IN
         IF c = <<>> \/ c = <<Dot>> THEN NormComps(Tail(comps), new, initial)
         ELSE IF \/ c # DotDot
                 \/ (initial = 0 /\ new = <<>>)
                 \/ (new # <<>> /\ new[Len(new)] = DotDot)
              THEN NormComps(Tail(comps), Append(new, c), initial)
         ELSE IF new # <<>>
              THEN NormComps(Tail(comps), SubSeq(new, 1, Len(new) - 1), initial)
         ELSE NormComps(Tail(comps), new, initial)

\* os.path.normpath
normpath(path) ==
    IF path = <<>> THEN <<Dot>>
    ELSE LET initial == IF ~StartsWith(path, <<Slash>>) THEN 0
                        ELSE IF StartsWith(path, <<Slash, Slash>>)
                                /\ ~StartsWith(path, <<Slash, Slash, Slash>>)
                             THEN 2 ELSE 1
             p == [i \in 1..initial |-> Slash]
                    \o JoinSlash(NormComps(Split(path), <<>>, initial))
         IN IF p = <<>> THEN <<Dot>> ELSE p

\* str.replace('..', ''): leftmost non-overlapping occurrences are removed
RECURSIVE RemoveDotDot(_)
RemoveDotDot(s) ==
    IF Len(s) < 2 THEN s
    ELSE IF s[1] = Dot /\ s[2] = Dot THEN RemoveDotDot(SubSeq(s, 3, Len(s)))
    ELSE <<s[1]>> \o RemoveDotDot(Tail(s))

\* os.path.join(a, b)
join(a, b) ==
    IF StartsWith(b, <<Slash>>) THEN b
    ELSE IF a = <<>> \/ a[Len(a)] = Slash THEN a \o b
    ELSE a \o <<Slash>> \o b

\* the working directory of the server process
Cwd == <<Slash>>

\* os.path.abspath
abspath(path) ==
    normpath(IF StartsWith(path, <<Slash>>) THEN path ELSE join(Cwd, path))

\* the path components of a normalised absolute path
Components(path) == SelectSeq(Split(path), LAMBDA c : c # <<>>)

\* os.path.splitext(path)[1]
RECURSIVE LastIndexOf(_, _, _)
LastIndexOf(s, c, i) ==
    IF i = 0 THEN 0 ELSE IF s[i] = c THEN i ELSE LastIndexOf(s, c, i - 1)
splitext_ext(path) ==
    LET sepIndex == LastIndexOf(path, Slash, Len(path))
        dotIndex == LastIndexOf(path, Dot, Len(path))
    IN IF dotIndex > sepIndex
          /\ \E k \in (sepIndex + 1)..(dotIndex - 1) : path[k] # Dot
       THEN SubSeq(path, dotIndex, Len(path))
       ELSE <<>>

-----------------------------------------------------------------------------
(* Configuration and the files on disk for the media route *)

\* cams_directory, default "/cameras/"
cams_directory == <<Slash, "cam", "eras", Slash>>

\* the files below cams_directory and elsewhere on the host
DiskFiles ==
    { cams_directory \o <<"cam", "1", Slash, "s", Dot, "jpg">>,
      cams_directory \o <<"cam", "1", Slash, "v", Dot, "mkv">>,
      cams_directory \o <<"cam", "1", Slash, "n", Dot, "txt">>,
      cams_directory \o <<"cam", "1", "0", Slash, "s", Dot, "jpg">>,
      cams_directory \o <<"cam", "1", "0", Slash, "v", Dot, "mkv">>,
      cams_directory \o <<"cam", "1", "0", Slash, "w", Dot, "MKV">>,
      cams_directory \o <<"cam", "1", "0", Slash, "s", Dot, Dot, "jpg">>,
      <<Slash, "s", Dot, "jpg">> }

\* os.path.exists: a file, or a directory on the way to one
exists(path) ==
    \E f \in DiskFiles :
        LET fc == Components(f)
            pc == Components(path)
        IN Len(pc) <= Len(fc) /\ SubSeq(fc, 1, Len(pc)) = pc


-----------------------------------------------------------------------------
(* serve_media: GET /media/<cam_name>/<path:filename> *)

NoResponse == [status |-> 0, body |-> "none", path |-> <<>>]

ImageExts == { <<Dot, "jpg">>, <<Dot, "jpeg">>, <<Dot, "png">> }

\* safe_filename = os.path.normpath(filename).replace('..', '')
safe_filename(fn) == RemoveDotDot(normpath(fn))

\* abs_media_path = abspath(join(cams_directory, cam_name, safe_filename))
abs_media_path(cam, fn) ==
    abspath(join(join(cams_directory, cam), safe_filename(fn)))

\* abs_cam_dir = abspath(join(cams_directory, cam_name))
abs_cam_dir(cam) == abspath(join(cams_directory, cam))

\* if not abs_media_path.startswith(abs_cam_dir)
WithinCamDir(media, camdir) == StartsWith(media, camdir)

\* the format dispatch on an existing path
Dispatch(path) ==
    LET ext == Lower(splitext_ext(path)) IN
    IF ext \in ImageExts
    THEN [status |-> 200, body |-> "send_file", path |-> path]
    ELSE IF ext = <<Dot, "mp4">>
    THEN [status |-> 200, body |-> "send_file", path |-> path]
    ELSE IF EndsWith(path, <<Dot, "mkv">>)
    THEN [status |-> 200, body |-> "transcode", path |-> path]
    ELSE [status |-> 415, body |-> "Unsupported file type", path |-> <<>>]

\* a handler that looks for the file before it checks where the path leads
serve_media_exists_first(cam, fn) ==
    IF ~StartsWith(cam, <<"cam">>)
    THEN [status |-> 404, body |-> "Invalid camera name", path |-> <<>>]
    ELSE IF ~exists(abs_media_path(cam, fn))
    THEN [status |-> 404, body |-> "File not found", path |-> <<>>]
    ELSE IF ~WithinCamDir(abs_media_path(cam, fn), abs_cam_dir(cam))
    THEN [status |-> 404, body |-> "Invalid file path", path |-> <<>>]
    ELSE Dispatch(abs_media_path(cam, fn))

\* the whole handler
serve_media(cam, fn) ==
    IF ~StartsWith(cam, <<"cam">>)
    THEN [status |-> 404, body |-> "Invalid camera name", path |-> <<>>]
    ELSE IF ~WithinCamDir(abs_media_path(cam, fn), abs_cam_dir(cam))
    THEN [status |-> 404, body |-> "Invalid file path", path |-> <<>>]
    ELSE IF ~exists(abs_media_path(cam, fn))
    THEN [status |-> 404, body |-> "File not found", path |-> <<>>]
    ELSE Dispatch(abs_media_path(cam, fn))

\* the longest requested path, in segments
MaxSegs == 4

\* the segments requests are built from
Segments ==
    { DotDot, <<Dot, Dot, Dot, Dot>>, <<Dot>>, <<"cam", "eras">>,
      <<"cam", "1">>, <<"cam", "1", "0">>,
      <<"s", Dot, "jpg">>, <<"v", Dot, "mkv">>, <<"n", Dot, "txt">> }

RECURSIVE PathsOfLen(_)
PathsOfLen(n) ==
    IF n = 1 THEN Segments
    ELSE { s \o <<Slash>> \o t : s \in Segments, t \in PathsOfLen(n - 1) }

\* what the <path:filename> converter can deliver: non-empty, no leading "/"
Filenames == UNION { PathsOfLen(n) : n \in 1..MaxSegs }

\* what the <cam_name> converter can deliver: non-empty, no "/"
CamNames == { <<"cam", "1">>, <<"cam", "1", "0">>, <<"dog">> }

MediaIdle ==
    /\ cam_name = <<>>
    /\ filename = <<>>
    /\ response = NoResponse
    /\ mpc = "off"

MediaInit ==
    /\ cam_name \in CamNames
    /\ filename \in Filenames
    /\ response = NoResponse
    /\ mpc = "request"

ServeMedia ==
    /\ mpc = "request"
    /\ response' = serve_media(cam_name, filename)
    /\ mpc' = "done"
    /\ UNCHANGED <<cam_name, filename>>
    /\ MediaFrame

-----------------------------------------------------------------------------
(* get_all_camera_data: the index cache, called by concurrent request      *)
(* threads (app.run serves each request on its own thread).  One action    *)
(* per access to the shared globals, which is where threads can switch.    *)
(* Threads are numbered in the order in which their requests arrive.       *)

\* CACHE_TTL: int = 300
CACHE_TTL == 300

\* the default of --prefix
DefaultPrefix == <<"cam">>

\* the values --prefix / SECURECAM_PREFIX may give cams_prefix
Prefixes == { DefaultPrefix, <<"door">> }

\* number of requests in one run; the server starts a thread for each
\* request, and each route handler calls get_all_camera_data once
NThreads == 2

\* number of times the clock advances in one run
MaxTicks == 2

Threads == 1..NThreads

\* the clock advances in steps that reach an age of exactly CACHE_TTL
TickStep == CACHE_TTL \div 2

\* datetime.now().timestamp() at start-up: seconds since 1970, far beyond CACHE_TTL
StartClock == 4 * CACHE_TTL

\* the entries of cams_directory, in os.listdir order
DirEntries == << <<"tmp">>, <<"cam", "1">>, <<"cam", "2">> >>

\* the camera whose directory can become unreadable
FlakyCam == <<"cam", "1">>

\* camera_data_cache = None
None == [id |-> 0, cams |-> <<>>]

\* the CameraIndex of a directory tree without media files
EmptyCameraIndex == "empty"

\* the CameraIndex of a camera with media files
FullCameraIndex == "files"

NoResult == [kind |-> "none", index |-> None]

\* os.listdir(cams_directory): the entries, or OSError
listdir_ok(d) == d.root = "ok"

\* the loop filter: cam.startswith(cams_prefix)
HasPrefix(cam) == StartsWith(cam, cams_prefix)

\* get_camera_data(cam): os.walk skips a directory it cannot list (its
\* onerror is None), so an unreadable camera directory yields no file
get_camera_data(cam, d) ==
    IF d.cams[cam] = "readable" THEN FullCameraIndex ELSE EmptyCameraIndex

\* the cache test with the boundary age taken for fresh
CacheValidInclusive(cache, now, builtAt) == cache # None /\ now - builtAt <= CACHE_TTL

\* the cache test of line 85
CacheValid(cache, now, builtAt) == cache # None /\ now - builtAt < CACHE_TTL

\* the entries the loop of line 89 skips before it reaches a camera
RECURSIVE SkipOthers(_)
SkipOthers(entries) ==
    IF entries = <<>> \/ HasPrefix(Head(entries)) THEN entries
    ELSE SkipOthers(Tail(entries))

InRebuild(t) == tpc[t] \in {"list", "walk", "store_cache", "store_time"}

CacheIdle ==
    /\ camera_data_cache = None
    /\ camera_data_cache_time = 0
    /\ clock = StartClock
    /\ disk = [root |-> "ok", cams |-> [c \in {FlakyCam} |-> "readable"]]
    /\ tpc = [t \in {} |-> "idle"]
    /\ tnow = [t \in {} |-> 0]
    /\ tdata = [t \in {} |-> <<>>]
    /\ ttodo = [t \in {} |-> <<>>]
    /\ tret = [t \in {} |-> NoResult]
    /\ tbuild = [t \in {} |-> 0]
    /\ builds = <<>>

CacheInit ==
    /\ camera_data_cache = None
    /\ camera_data_cache_time = 0
    /\ clock = StartClock
    /\ disk = [root |-> "ok",
               cams |-> [c \in {DirEntries[i] : i \in 1..Len(DirEntries)} |-> "readable"]]
    /\ tpc = [t \in Threads |-> "idle"]
    /\ tnow = [t \in Threads |-> 0]
    /\ tdata = [t \in Threads |-> <<>>]
    /\ ttodo = [t \in Threads |-> <<>>]
    /\ tret = [t \in Threads |-> NoResult]
    /\ tbuild = [t \in Threads |-> 0]
    /\ builds = <<>>

\* line 83: now = datetime.datetime.now().timestamp()
ReadNow(t) ==
    /\ tpc[t] = "idle"
    /\ t > 1 => tpc[t - 1] # "idle"
    /\ tnow' = [tnow EXCEPT ![t] = clock]
    /\ tret' = [tret EXCEPT ![t] = NoResult]
    /\ tpc' = [tpc EXCEPT ![t] = "check"]
    /\ UNCHANGED <<camera_data_cache, camera_data_cache_time, clock, disk,
                   tdata, ttodo, tbuild, builds>>
    /\ CacheFrame

\* entering line 87: camera_data = {}
StartRebuild(t) ==
    /\ tpc' = [tpc EXCEPT ![t] = "list"]
    /\ tdata' = [tdata EXCEPT ![t] = <<>>]
    /\ builds' = Append(builds, [by |-> t, at |-> tnow[t], saw |-> <<>>,
                                 raised |-> FALSE, had |-> None])
    /\ tbuild' = [tbuild EXCEPT ![t] = Len(builds) + 1]

\* line 85: camera_data_cache is not None and now - camera_data_cache_time
\* < CACHE_TTL.  The two globals are read one after the other; the cache is
\* never set back to None, so reading both at the moment of the second read
\* gives the same outcomes as reading them apart.
CheckCache(t) ==
    /\ tpc[t] = "check"
    /\ IF CacheValid(camera_data_cache, tnow[t], camera_data_cache_time)
       THEN /\ tpc' = [tpc EXCEPT ![t] = "ret_hit"]
            /\ UNCHANGED <<tdata, builds, tbuild>>
       ELSE StartRebuild(t)
    /\ UNCHANGED <<camera_data_cache, camera_data_cache_time, clock, disk,
                   tnow, ttodo, tret>>
    /\ CacheFrame

\* line 86: return camera_data_cache
ReturnHit(t) ==
    /\ tpc[t] = "ret_hit"
    /\ tret' = [tret EXCEPT ![t] = [kind |-> "index", index |-> camera_data_cache]]
    /\ tpc' = [tpc EXCEPT ![t] = "done"]
    /\ tnow' = [tnow EXCEPT ![t] = 0]
    /\ UNCHANGED <<camera_data_cache, camera_data_cache_time, clock, disk,
                   tdata, ttodo, tbuild, builds>>
    /\ CacheFrame

\* line 89: os.listdir(cams_directory); OSError leaves the function
ListDir(t) ==
    /\ tpc[t] = "list"
    /\ IF listdir_ok(disk)
       THEN /\ ttodo' = [ttodo EXCEPT ![t] = SkipOthers(DirEntries)]
            /\ tpc' = [tpc EXCEPT ![t] =
                         IF SkipOthers(DirEntries) = <<>> THEN "store_cache" ELSE "walk"]
            /\ UNCHANGED <<tret, tnow, tbuild, builds>>
       ELSE /\ tret' = [tret EXCEPT ![t] = [kind |-> "raised", index |-> None]]
            /\ tpc' = [tpc EXCEPT ![t] = "done"]
            /\ tnow' = [tnow EXCEPT ![t] = 0]
            /\ tbuild' = [tbuild EXCEPT ![t] = 0]
            /\ builds' = [builds EXCEPT ![tbuild[t]].raised = TRUE,
                                        ![tbuild[t]].had = camera_data_cache]
            /\ UNCHANGED ttodo
    /\ UNCHANGED <<camera_data_cache, camera_data_cache_time, clock, disk, tdata>>
    /\ CacheFrame

\* a loop that stores the dictionary in the cache after each camera
WalkPublishing(t) ==
    /\ tpc[t] = "walk"
    /\ LET cam == Head(ttodo[t])
           rest == SkipOthers(Tail(ttodo[t]))
       IN /\ ttodo' = [ttodo EXCEPT ![t] = rest]
          /\ tpc' = [tpc EXCEPT ![t] = IF rest = <<>> THEN "store_cache" ELSE "walk"]
          /\ tdata' = [tdata EXCEPT ![t] =
                 [c \in DOMAIN tdata[t] \cup {cam} |->
                     IF c = cam THEN get_camera_data(cam, disk) ELSE tdata[t][c]]]
          /\ builds' = [builds EXCEPT ![tbuild[t]].saw =
                 [c \in DOMAIN builds[tbuild[t]].saw \cup {cam} |->
                     IF c = cam THEN disk.cams[cam] ELSE builds[tbuild[t]].saw[c]]]
          /\ camera_data_cache' = [id |-> tbuild[t], cams |-> tdata'[t]]
    /\ UNCHANGED <<camera_data_cache_time, clock, disk, tnow, tret, tbuild>>
    /\ CacheFrame

\* lines 89-92: the next camera of the loop, camera_data[cam] =
\* get_camera_data(cam), and the entries without the prefix that follow it
Walk(t) ==
    /\ tpc[t] = "walk"
    /\ LET cam == Head(ttodo[t])
           rest == SkipOthers(Tail(ttodo[t]))
       IN /\ ttodo' = [ttodo EXCEPT ![t] = rest]
          /\ tpc' = [tpc EXCEPT ![t] = IF rest = <<>> THEN "store_cache" ELSE "walk"]
          /\ tdata' = [tdata EXCEPT ![t] =
                 [c \in DOMAIN tdata[t] \cup {cam} |->
                     IF c = cam THEN get_camera_data(cam, disk) ELSE tdata[t][c]]]
          /\ builds' = [builds EXCEPT ![tbuild[t]].saw =
                 [c \in DOMAIN builds[tbuild[t]].saw \cup {cam} |->
                     IF c = cam THEN disk.cams[cam] ELSE builds[tbuild[t]].saw[c]]]
    /\ UNCHANGED <<camera_data_cache, camera_data_cache_time, clock, disk,
                   tnow, tret, tbuild>>
    /\ CacheFrame

\* line 93: camera_data_cache = camera_data
StoreCache(t) ==
    /\ tpc[t] = "store_cache"
    /\ camera_data_cache' = [id |-> tbuild[t], cams |-> tdata[t]]
    /\ tpc' = [tpc EXCEPT ![t] = "store_time"]
    /\ UNCHANGED <<camera_data_cache_time, clock, disk,
                   tnow, tdata, ttodo, tret, tbuild, builds>>
    /\ CacheFrame

\* lines 94-95: camera_data_cache_time = now; return camera_data
StoreTime(t) ==
    /\ tpc[t] = "store_time"
    /\ camera_data_cache_time' = tnow[t]
    /\ tret' = [tret EXCEPT ![t] =
                  [kind |-> "index", index |-> [id |-> tbuild[t], cams |-> tdata[t]]]]
    /\ tpc' = [tpc EXCEPT ![t] = "done"]
    /\ tnow' = [tnow EXCEPT ![t] = 0]
    /\ tdata' = [tdata EXCEPT ![t] = <<>>]
    /\ tbuild' = [tbuild EXCEPT ![t] = 0]
    /\ UNCHANGED <<camera_data_cache, clock, disk, ttodo, builds>>
    /\ CacheFrame

\* time passes
Tick ==
    /\ clock < StartClock + MaxTicks * TickStep
    /\ clock' = clock + TickStep
    /\ UNCHANGED <<camera_data_cache, camera_data_cache_time, disk,
                   tpc, tnow, tdata, ttodo, tret, tbuild, builds>>
    /\ CacheFrame

\* cams_directory becomes unreadable, or readable again
RootChanges ==
    /\ disk' = [disk EXCEPT !.root = IF @ = "ok" THEN "unreadable" ELSE "ok"]
    /\ UNCHANGED <<camera_data_cache, camera_data_cache_time, clock,
                   tpc, tnow, tdata, ttodo, tret, tbuild, builds>>
    /\ CacheFrame

\* a camera directory becomes unreadable, or readable again
CamChanges ==
    /\ disk' = [disk EXCEPT !.cams[FlakyCam] =
                    IF @ = "readable" THEN "unreadable" ELSE "readable"]
    /\ UNCHANGED <<camera_data_cache, camera_data_cache_time, clock,
                   tpc, tnow, tdata, ttodo, tret, tbuild, builds>>
    /\ CacheFrame

-----------------------------------------------------------------------------
(* serve_media.generate: the generator that streams ffmpeg's standard      *)
(* output.  Its consumer is the WSGI server, which pulls chunks with       *)
(* next() and calls close() when the response is over or the client is     *)
(* gone.  ffmpeg is its own process and runs concurrently.                 *)

\* the longest output of the process, in chunks of 4096 bytes
MaxChunks == 3

\* the room in the stdout pipe, in chunks
PipeCap == 2

\* the room in the stderr pipe, in messages
ErrCap == 1

NoProc == [state |-> "none", next |-> 0, total |-> 0, code |-> "none"]

ProcAlive == proc.state \in {"running", "blocked", "signalled"}

StreamIdle ==
    /\ gpc = "off"
    /\ proc = NoProc
    /\ pipe = <<>>
    /\ errpipe = 0
    /\ handles = {}
    /\ yielded = <<>>
    /\ reads = 0
    /\ cleanups = 0
    /\ spawns = 0
    /\ ending = "none"
    /\ outcome = "none"
    /\ cancelled = FALSE

\* line 524: Response(generate(), ...): the generator exists, no line of it has run
StreamInit ==
    /\ gpc = "created"
    /\ proc = NoProc
    /\ pipe = <<>>
    /\ errpipe = 0
    /\ handles = {}
    /\ yielded = <<>>
    /\ reads = 0
    /\ cleanups = 0
    /\ spawns = 0
    /\ ending = "none"
    /\ outcome = "none"
    /\ cancelled = FALSE

\* first next(): line 513, p = subprocess.Popen(...); the process has
\* `total` chunks to write before it exits by itself
Spawn ==
    /\ gpc = "created"
    /\ \E n \in 0..MaxChunks :
           proc' = [state |-> "running", next |-> 1, total |-> n, code |-> "none"]
    /\ handles' = {"stdout", "stderr"}
    /\ spawns' = spawns + 1
    /\ gpc' = "read"
    /\ UNCHANGED <<pipe, errpipe, yielded, reads, cleanups, ending, outcome, cancelled>>
    /\ StreamFrame

\* first next(): Popen raises (no ffmpeg binary); the try block is not entered
SpawnFails ==
    /\ gpc = "created"
    /\ gpc' = "done"
    /\ outcome' = "error"
    /\ UNCHANGED <<proc, pipe, errpipe, handles, yielded, reads, cleanups,
                   spawns, ending, cancelled>>
    /\ StreamFrame

\* a read that hands out the newest chunk of the pipe, not the oldest
ReadChunkNewest ==
    /\ gpc = "read"
    /\ pipe # <<>>
    /\ reads' = reads + 1
    /\ yielded' = Append(yielded, pipe[Len(pipe)])
    /\ pipe' = SubSeq(pipe, 1, Len(pipe) - 1)
    /\ gpc' = "suspended"
    /\ UNCHANGED <<proc, errpipe, handles, cleanups, spawns, ending, outcome, cancelled>>
    /\ StreamFrame

\* lines 516-519: chunk = p.stdout.read(4096) returns data; yield chunk
ReadChunk ==
    /\ gpc = "read"
    /\ pipe # <<>>
    /\ reads' = reads + 1
    /\ yielded' = Append(yielded, Head(pipe))
    /\ pipe' = Tail(pipe)
    /\ gpc' = "suspended"
    /\ UNCHANGED <<proc, errpipe, handles, cleanups, spawns, ending, outcome, cancelled>>
    /\ StreamFrame

\* lines 516-518: read returns b'' at end of file (the writer is gone); break
ReadEOF ==
    /\ gpc = "read"
    /\ pipe = <<>>
    /\ proc.state = "exited"
    /\ reads' = reads + 1
    /\ ending' = "eof"
    /\ gpc' = "close_stdout"
    /\ UNCHANGED <<proc, pipe, errpipe, handles, yielded, cleanups, spawns,
                   outcome, cancelled>>
    /\ StreamFrame

\* line 516: the read raises
ReadFails ==
    /\ gpc = "read"
    /\ reads' = reads + 1
    /\ ending' = "exception"
    /\ gpc' = "close_stdout"
    /\ UNCHANGED <<proc, pipe, errpipe, handles, yielded, cleanups, spawns,
                   outcome, cancelled>>
    /\ StreamFrame

\* next() on the generator suspended at line 519: back to the read
Pull ==
    /\ gpc = "suspended"
    /\ gpc' = "read"
    /\ UNCHANGED <<proc, pipe, errpipe, handles, yielded, reads, cleanups,
                   spawns, ending, outcome, cancelled>>
    /\ StreamFrame

\* close() on a generator whose loop has no finally block around it
CloseSuspendedNoFinally ==
    /\ gpc = "suspended"
    /\ cancelled' = TRUE
    /\ ending' = "close"
    /\ outcome' = "cancelled"
    /\ gpc' = "done"
    /\ UNCHANGED <<proc, pipe, errpipe, handles, yielded, reads, cleanups, spawns>>
    /\ StreamFrame

\* close() on the generator suspended at line 519: GeneratorExit is raised
\* at the yield and the finally block is entered
CloseSuspended ==
    /\ gpc = "suspended"
    /\ cancelled' = TRUE
    /\ ending' = "close"
    /\ gpc' = "close_stdout"
    /\ UNCHANGED <<proc, pipe, errpipe, handles, yielded, reads, cleanups,
                   spawns, outcome>>
    /\ StreamFrame

\* close() on the generator that never ran: no line of it runs
CloseCreated ==
    /\ gpc = "created"
    /\ cancelled' = TRUE
    /\ gpc' = "done"
    /\ outcome' = "cancelled"
    /\ UNCHANGED <<proc, pipe, errpipe, handles, yielded, reads, cleanups,
                   spawns, ending>>
    /\ StreamFrame

\* a finally block that closes the pipes and leaves the process alone
terminate_skipped(p) == p

\* p.terminate(): SIGTERM, unless the process has exited already
terminate(p) ==
    IF p.state \in {"running", "blocked"} THEN [p EXCEPT !.state = "signalled"] ELSE p

\* how the generator ends for its consumer once the finally block is over:
\* StopIteration after the break, the close() returns, the exception goes on
EndOf(e) == CASE e = "eof" -> "ok"
              [] e = "close" -> "cancelled"
              [] e = "exception" -> "error"

\* line 521: p.stdout.close()
CloseStdout ==
    /\ gpc = "close_stdout"
    /\ handles' = handles \ {"stdout"}
    /\ pipe' = <<>>
    /\ gpc' = "close_stderr"
    /\ UNCHANGED <<proc, errpipe, yielded, reads, cleanups, spawns, ending,
                   outcome, cancelled>>
    /\ StreamFrame

\* line 522: p.stderr.close()
CloseStderr ==
    /\ gpc = "close_stderr"
    /\ handles' = handles \ {"stderr"}
    /\ errpipe' = 0
    /\ gpc' = "terminate"
    /\ UNCHANGED <<proc, pipe, yielded, reads, cleanups, spawns, ending,
                   outcome, cancelled>>
    /\ StreamFrame

\* line 523: p.terminate(); the finally block is over and the generator ends
Terminate ==
    /\ gpc = "terminate"
    /\ proc' = terminate(proc)
    /\ cleanups' = cleanups + 1
    /\ outcome' = EndOf(ending)
    /\ gpc' = "done"
    /\ UNCHANGED <<pipe, errpipe, handles, yielded, reads, spawns, ending,
                   cancelled>>
    /\ StreamFrame

\* ffmpeg writes its next chunk to standard output
ProcWrite ==
    /\ proc.state = "running"
    /\ proc.next <= proc.total
    /\ IF "stdout" \notin handles
       THEN /\ proc' = [proc EXCEPT !.state = "exited", !.code = "sigpipe"]
            /\ UNCHANGED pipe
       ELSE /\ Len(pipe) < PipeCap
            /\ pipe' = Append(pipe, proc.next)
            /\ proc' = [proc EXCEPT !.next = @ + 1]
    /\ UNCHANGED <<gpc, errpipe, handles, yielded, reads, cleanups, spawns,
                   ending, outcome, cancelled>>
    /\ StreamFrame

\* ffmpeg writes a message to standard error (-loglevel error); nobody
\* reads that pipe, so the write blocks once the pipe is full
ProcWriteErr ==
    /\ proc.state \in {"running", "blocked"}
    /\ proc.state = "blocked" => "stderr" \notin handles
    /\ IF "stderr" \notin handles
       THEN /\ proc' = [proc EXCEPT !.state = "exited", !.code = "sigpipe"]
            /\ UNCHANGED errpipe
       ELSE IF errpipe < ErrCap
       THEN /\ errpipe' = errpipe + 1
            /\ UNCHANGED proc
       ELSE /\ proc' = [proc EXCEPT !.state = "blocked"]
            /\ UNCHANGED errpipe
    /\ UNCHANGED <<gpc, pipe, handles, yielded, reads, cleanups, spawns,
                   ending, outcome, cancelled>>
    /\ StreamFrame

\* ffmpeg exits by itself: with status 0 after its last chunk, with an
\* error status at any point (corrupt input)
ProcExit ==
    /\ proc.state = "running"
    /\ \E c \in {"zero", "error"} :
           /\ c = "zero" => proc.next > proc.total
           /\ proc' = [proc EXCEPT !.state = "exited", !.code = c]
    /\ UNCHANGED <<gpc, pipe, errpipe, handles, yielded, reads, cleanups,
                   spawns, ending, outcome, cancelled>>
    /\ StreamFrame

\* the signalled process dies
ProcDies ==
    /\ proc.state = "signalled"
    /\ proc' = [proc EXCEPT !.state = "exited", !.code = "sigterm"]
    /\ UNCHANGED <<gpc, pipe, errpipe, handles, yielded, reads, cleanups,
                   spawns, ending, outcome, cancelled>>
    /\ StreamFrame

-----------------------------------------------------------------------------
(* get_camera_data: the index of one camera directory.  A date string       *)
(* '%Y-%m-%d' is modelled by the number of its day: strftime maps days to   *)
(* strings one to one and in the same order.                                *)

SecondsPerDay == 86400

\* CET = pytz.timezone('CET'), in winter: one hour east of UTC
CET == 3600

\* os.path.getmtime returns a float; the model counts it in half seconds
TicksPerSecond == 2

\* the zones the host may run in: UTC (a container's default) or CET
HostZones == {0, CET}

\* timestamp = int(mtime_cet.timestamp())
Timestamp(mtime) == mtime \div TicksPerSecond

\* the calendar date of ts on a clock tz seconds east of UTC
DateIn(ts, tz) == (ts + tz) \div SecondsPerDay

\* datetime.datetime.fromtimestamp(ts, CET).strftime('%Y-%m-%d')
format_cet(ts) == DateIn(ts, CET)

\* datetime.datetime.fromtimestamp(ts).strftime('%Y-%m-%d'): the host's zone
LocalDate(ts) == DateIn(ts, host_tz)

VideoExts == { <<Dot, "mp4">>, <<Dot, "mkv">> }

is_extension_in_list(file, extensions) ==
    \E ext \in extensions : EndsWith(Lower(file), Lower(ext))

\* the file name of a relative path
Basename(path) == Split(path)[Len(Split(path))]

\* the modification times files may have, in half seconds: two within one
\* second, one late in the evening of day 0 in UTC, which is day 1 in CET,
\* and one on day 1 in both zones
Mtimes ==
    { 200, 201,
      TicksPerSecond * (SecondsPerDay - CET) + 200,
      TicksPerSecond * SecondsPerDay + 200 }

\* the relative paths below the camera directory: two photos, one of them
\* in a subdirectory, a video and a file of no known kind
RelPaths ==
    { <<"s", Dot, "jpg">>, <<"x", Slash, "u", Dot, "JPG">>,
      <<"v", Dot, "mkv">>, <<"n", Dot, "txt">> }

\* the most files a camera directory holds
MaxFiles == 3

\* the directories: at most n files with distinct paths out of `paths`, in
\* the order os.walk finds them
RECURSIVE TreesFrom(_, _)
TreesFrom(paths, n) ==
    IF n = 0 THEN { <<>> }
    ELSE { <<>> } \cup
         UNION { { <<[path |-> p, mtime |-> m]>> \o t :
                     m \in Mtimes, t \in TreesFrom(paths \ {p}, n - 1) } :
                 p \in paths }

Trees == TreesFrom(RelPaths, MaxFiles)

\* files.setdefault(timestamp, rel_path): the first file of a timestamp stays
DictKeepFirst(d, ts, path) ==
    IF \E i \in DOMAIN d : d[i].ts = ts THEN d
    ELSE Append(d, [ts |-> ts, path |-> path])

\* files[timestamp] = rel_path on a dict, which keeps its keys in the order
\* of their first insertion
DictSet(d, ts, path) ==
    IF \E i \in DOMAIN d : d[i].ts = ts
    THEN [i \in DOMAIN d |->
             IF d[i].ts = ts THEN [ts |-> ts, path |-> path] ELSE d[i]]
    ELSE Append(d, [ts |-> ts, path |-> path])

\* lines 539-552: the walk, classifying each file by its extension
RECURSIVE WalkFiles(_, _, _)
WalkFiles(files, video_files, photo_files) ==
    IF files = <<>> THEN [videos |-> video_files, photos |-> photo_files]
    ELSE LET rel_path  == Head(files).path
             timestamp == Timestamp(Head(files).mtime)
         IN IF is_extension_in_list(Basename(rel_path), ImageExts)
            THEN WalkFiles(Tail(files), video_files,
                           DictSet(photo_files, timestamp, rel_path))
            ELSE IF is_extension_in_list(Basename(rel_path), VideoExts)
            THEN WalkFiles(Tail(files),
                           DictSet(video_files, timestamp, rel_path), photo_files)
            ELSE WalkFiles(Tail(files), video_files, photo_files)

\* list.sort() on (ts, rel_path) pairs whose timestamps differ
RECURSIVE InsertSorted(_, _)
InsertSorted(e, s) ==
    IF s = <<>> THEN <<e>>
    ELSE IF e.ts <= Head(s).ts THEN <<e>> \o s
    ELSE <<Head(s)>> \o InsertSorted(e, Tail(s))

\* a list left in the order of its appends
Unsorted(s) == s

RECURSIVE SortList(_)
SortList(s) == IF s = <<>> THEN <<>> ELSE InsertSorted(Head(s), SortList(Tail(s)))

\* sorted(keys)
RECURSIVE sorted(_)
sorted(keys) ==
    IF keys = {} THEN <<>>
    ELSE LET least == CHOOSE k \in keys : \A o \in keys : k <= o
         IN <<least>> \o sorted(keys \ {least})

\* a grouping by the date of the host's zone
group_by_local_date(files_dict) ==
    [date \in { LocalDate(files_dict[i].ts) : i \in DOMAIN files_dict } |->
        SortList(SelectSeq(files_dict, LAMBDA e : LocalDate(e.ts) = date))]

\* lines 554-564: by_date.setdefault(date, []).append((ts, rel_path)) in the
\* order of the dict, then each list sorted
group_by_date(files_dict) ==
    [date \in { format_cet(files_dict[i].ts) : i \in DOMAIN files_dict } |->
        SortList(SelectSeq(files_dict, LAMBDA e : format_cet(e.ts) = date))]

\* lines 565-576: the index of one camera
CameraIndex(files) ==
    LET flat == WalkFiles(files, <<>>, <<>>)
        videos_by_date == group_by_date(flat.videos)
        photos_by_date == group_by_date(flat.photos)
    IN [videos |-> flat.videos,
        photos |-> flat.photos,
        videos_by_date |-> videos_by_date,
        photos_by_date |-> photos_by_date,
        video_dates |-> sorted(DOMAIN videos_by_date),
        photo_dates |-> sorted(DOMAIN photos_by_date)]

\* the parts of a camera's index, by kind
Kinds == {"photos", "videos"}
Flat(index, kind) == IF kind = "photos" THEN index.photos ELSE index.videos
Buckets(index, kind) ==
    IF kind = "photos" THEN index.photos_by_date ELSE index.videos_by_date
DateList(index, kind) ==
    IF kind = "photos" THEN index.photo_dates ELSE index.video_dates

\* the camera directory the routes are asked about
TheCamera == <<"cam", "1">>

NoData == <<>>
NoRequest == [route |-> "none"]
NoReply == [status |-> 0, body |-> "none"]

\* the most changes made to the directory
MaxEdits == 1

ConfigDefault ==
    /\ cams_prefix = DefaultPrefix
    /\ host_tz = 0

RouteIdle ==
    /\ tree = <<>>
    /\ all_data = NoData
    /\ cpc = "off"
    /\ req = NoRequest
    /\ reply = NoReply
    /\ edits = 0

RouteInit ==
    /\ tree \in Trees
    /\ all_data = NoData
    /\ cpc = "disk"
    /\ req = NoRequest
    /\ reply = NoReply
    /\ edits = 0

\* get_all_camera_data with no valid cache: the camera directory is indexed
BuildIndex ==
    /\ cpc = "disk"
    /\ all_data' = [cam \in {TheCamera} |-> CameraIndex(tree)]
    /\ cpc' = "indexed"
    /\ UNCHANGED <<tree, req, reply, edits>>
    /\ RouteFrame

\* a file is removed from the camera directory
RemoveFile ==
    /\ cpc = "indexed"
    /\ edits < MaxEdits
    /\ \E i \in DOMAIN tree :
           tree' = SubSeq(tree, 1, i - 1) \o SubSeq(tree, i + 1, Len(tree))
    /\ edits' = edits + 1
    /\ cpc' = "disk"
    /\ UNCHANGED <<all_data, req, reply>>
    /\ RouteFrame

\* a file is added to the camera directory, anywhere in the walk order
AddFile ==
    /\ cpc = "indexed"
    /\ edits < MaxEdits
    /\ Len(tree) < MaxFiles
    /\ \E i \in 0..Len(tree), p \in RelPaths, m \in Mtimes :
           /\ \A j \in DOMAIN tree : tree[j].path # p
           /\ tree' = SubSeq(tree, 1, i) \o <<[path |-> p, mtime |-> m]>>
                         \o SubSeq(tree, i + 1, Len(tree))
    /\ edits' = edits + 1
    /\ cpc' = "disk"
    /\ UNCHANGED <<all_data, req, reply>>
    /\ RouteFrame

-----------------------------------------------------------------------------
(* The camera routes.  Each returns a page; the model keeps of a page what  *)
(* it lists or shows and where its links lead.                              *)

NoEntry == [ts |-> 0, path |-> <<>>]
NoLink  == [kind |-> "none", date |-> 0, idx |-> 0]

Reply(status, body) ==
    [status |-> status, body |-> body, list |-> <<>>, entry |-> NoEntry,
     link |-> NoLink]

\* an exception leaves the view function: Flask answers 500
Unhandled(exception) == Reply(500, exception)

\* the view function ends without a return statement: Flask raises TypeError
ReturnsNone == Unhandled("TypeError")

\* if not cam_name.startswith("cam"): return "Invalid camera name", 404
InvalidName(cam) == ~StartsWith(cam, <<"cam">>)

\* lines 131-148: camera_detail; the return statement is inside the loop
\* over the timestamps, so the page is made in the first iteration
camera_detail(cam) ==
    IF InvalidName(cam) THEN Reply(404, "Invalid camera name")
    ELSE IF cam \notin DOMAIN all_data THEN Reply(404, "Camera not found")
    ELSE LET data == all_data[cam]
             keys == data.videos \o data.photos
         IN IF keys = <<>> THEN ReturnsNone
            ELSE [Reply(200, "detail") EXCEPT !.list = <<LocalDate(keys[1].ts)>>]

\* lines 183-194 and 261-272: camera_videos_dates, camera_photos_dates; the
\* return statement is inside the loop here too
camera_dates(cam, kind) ==
    IF InvalidName(cam) THEN Reply(404, "Invalid camera name")
    ELSE IF cam \notin DOMAIN all_data THEN Unhandled("KeyError")
    ELSE LET files == Flat(all_data[cam], kind)
         IN IF files = <<>> THEN ReturnsNone
            ELSE [Reply(200, "dates") EXCEPT !.list = <<LocalDate(files[1].ts)>>]

\* lines 224-229 and 302-307: camera_videos_files, camera_photos_files; entry
\* number i of the list links to the viewer of (date, i)
camera_files(cam, kind, date) ==
    IF InvalidName(cam) THEN Reply(404, "Invalid camera name")
    ELSE IF cam \notin DOMAIN all_data THEN Unhandled("KeyError")
    ELSE [Reply(200, "files") EXCEPT !.list =
             SortList(SelectSeq(Flat(all_data[cam], kind),
                                LAMBDA e : LocalDate(e.ts) = date))]

Abs(n) == IF n < 0 THEN -n ELSE n

\* min(candidates, key=lambda x: x[0] - ts)
earliest(candidates, ts) ==
    candidates[CHOOSE i \in DOMAIN candidates :
                  \A j \in DOMAIN candidates :
                      /\ candidates[i].ts - ts <= candidates[j].ts - ts
                      /\ j < i => candidates[i].ts - ts < candidates[j].ts - ts]

\* min(candidates, key=lambda x: abs(x[0] - ts)): the first of the least
nearest(candidates, ts) ==
    candidates[CHOOSE i \in DOMAIN candidates :
                  \A j \in DOMAIN candidates :
                      /\ Abs(candidates[i].ts - ts) <= Abs(candidates[j].ts - ts)
                      /\ j < i => Abs(candidates[i].ts - ts) < Abs(candidates[j].ts - ts)]

OtherKind(kind) == IF kind = "photos" THEN "videos" ELSE "photos"

\* lines 366-374 and 435-443: the link to the nearest file of the other kind
nearest_link(data, kind, ts) ==
    LET candidates == Flat(data, OtherKind(kind))
        by_date    == Buckets(data, OtherKind(kind))
    IN IF candidates = <<>> THEN Reply(200, "viewer")
       ELSE LET nearest_ts   == nearest(candidates, ts).ts
                nearest_date == format_cet(nearest_ts)
            IN IF nearest_date \notin DOMAIN by_date THEN Unhandled("KeyError")
               ELSE LET found == { i \in DOMAIN by_date[nearest_date] :
                                     by_date[nearest_date][i].ts = nearest_ts }
                    IN IF found = {} THEN Unhandled("IndexError")
                       ELSE [Reply(200, "viewer") EXCEPT !.link =
                               [kind |-> OtherKind(kind), date |-> nearest_date,
                                idx |-> (CHOOSE i \in found :
                                           \A j \in found : i <= j) - 1]]

\* lines 339-376 and 408-445: camera_video_viewer, camera_photo_viewer
camera_viewer(cam, kind, date, file_idx) ==
    IF InvalidName(cam) THEN Reply(404, "Invalid camera name")
    ELSE IF cam \notin DOMAIN all_data THEN Unhandled("KeyError")
    ELSE LET data  == all_data[cam]
             files == IF date \in DOMAIN Buckets(data, kind)
                      THEN Buckets(data, kind)[date] ELSE <<>>
         IN IF file_idx < 0 \/ file_idx >= Len(files)
            THEN Reply(404, "File not found")
            ELSE IF \A i \in DOMAIN DateList(data, kind) :
                        DateList(data, kind)[i] # date
            THEN Unhandled("ValueError")
            ELSE [nearest_link(data, kind, files[file_idx + 1].ts)
                     EXCEPT !.entry = files[file_idx + 1]]

camera_videos_dates(cam) == camera_dates(cam, "videos")
camera_photos_dates(cam) == camera_dates(cam, "photos")
camera_videos_files(cam, date) == camera_files(cam, "videos", date)
camera_photos_files(cam, date) == camera_files(cam, "photos", date)
camera_video_viewer(cam, date, file_idx) == camera_viewer(cam, "videos", date, file_idx)
camera_photo_viewer(cam, date, file_idx) == camera_viewer(cam, "photos", date, file_idx)

\* the camera names asked for: the indexed one, one with the prefix that
\* has no directory, one without the prefix
RouteCams == { TheCamera, <<"cam", "2">>, <<"dog">> }

\* the dates asked for: day 0 and day 1
RouteDates == {0, 1}

\* the largest <int:file_idx> asked for
MaxIdx == 2

Request(route, cam, date, idx) ==
    [route |-> route, cam |-> cam, date |-> date, idx |-> idx]

\* GET /camera/<cam_name>
CameraDetail ==
    /\ cpc = "indexed"
    /\ \E cam \in RouteCams :
           /\ req' = Request("camera_detail", cam, 0, 0)
           /\ reply' = camera_detail(cam)
    /\ cpc' = "done"
    /\ UNCHANGED <<tree, all_data, edits>>
    /\ RouteFrame

\* GET /camera/<cam_name>/videos
CameraVideosDates ==
    /\ cpc = "indexed"
    /\ \E cam \in RouteCams :
           /\ req' = Request("camera_videos_dates", cam, 0, 0)
           /\ reply' = camera_videos_dates(cam)
    /\ cpc' = "done"
    /\ UNCHANGED <<tree, all_data, edits>>
    /\ RouteFrame

\* GET /camera/<cam_name>/photos
CameraPhotosDates ==
    /\ cpc = "indexed"
    /\ \E cam \in RouteCams :
           /\ req' = Request("camera_photos_dates", cam, 0, 0)
           /\ reply' = camera_photos_dates(cam)
    /\ cpc' = "done"
    /\ UNCHANGED <<tree, all_data, edits>>
    /\ RouteFrame

\* GET /camera/<cam_name>/videos/<date>
CameraVideosFiles ==
    /\ cpc = "indexed"
    /\ \E cam \in RouteCams, date \in RouteDates :
           /\ req' = Request("camera_videos_files", cam, date, 0)
           /\ reply' = camera_videos_files(cam, date)
    /\ cpc' = "done"
    /\ UNCHANGED <<tree, all_data, edits>>
    /\ RouteFrame

\* GET /camera/<cam_name>/photos/<date>
CameraPhotosFiles ==
    /\ cpc = "indexed"
    /\ \E cam \in RouteCams, date \in RouteDates :
           /\ req' = Request("camera_photos_files", cam, date, 0)
           /\ reply' = camera_photos_files(cam, date)
    /\ cpc' = "done"
    /\ UNCHANGED <<tree, all_data, edits>>
    /\ RouteFrame

\* GET /camera/<cam_name>/videos/<date>/<int:file_idx>
CameraVideoViewer ==
    /\ cpc = "indexed"
    /\ \E cam \in RouteCams, date \in RouteDates, idx \in 0..MaxIdx :
           /\ req' = Request("camera_video_viewer", cam, date, idx)
           /\ reply' = camera_video_viewer(cam, date, idx)
    /\ cpc' = "done"
    /\ UNCHANGED <<tree, all_data, edits>>
    /\ RouteFrame

\* GET /camera/<cam_name>/photos/<date>/<int:file_idx>
CameraPhotoViewer ==
    /\ cpc = "indexed"
    /\ \E cam \in RouteCams, date \in RouteDates, idx \in 0..MaxIdx :
           /\ req' = Request("camera_photo_viewer", cam, date, idx)
           /\ reply' = camera_photo_viewer(cam, date, idx)
    /\ cpc' = "done"
    /\ UNCHANGED <<tree, all_data, edits>>
    /\ RouteFrame

-----------------------------------------------------------------------------
(* From the index to serve_media: the viewers link every indexed file to    *)
(* /media/<cam_name>/<rel_path>                                             *)

\* os.path.relpath(full_path, os.path.join(cams_directory, cam)) of the
\* files on disk below the directory of cam
CamRelPaths(cam) ==
    LET cam_path == join(cams_directory, cam) \o <<Slash>>
    IN { SubSeq(f, Len(cam_path) + 1, Len(f)) :
           f \in { g \in DiskFiles : StartsWith(g, cam_path) } }

\* what os.walk finds below the directory of cam: all its files, in some
\* order, with some modification times
WalksOf(cam) ==
    { t \in TreesFrom(CamRelPaths(cam), Cardinality(CamRelPaths(cam))) :
        Len(t) = Cardinality(CamRelPaths(cam)) }

\* the cameras get_all_camera_data indexes
IndexedCams == { c \in CamNames : HasPrefix(c) }

RoundTripInit ==
    /\ cam_name \in IndexedCams
    /\ tree \in WalksOf(cam_name)
    /\ filename = <<>>
    /\ response = NoResponse
    /\ mpc = "request"
    /\ all_data = NoData
    /\ cpc = "disk"
    /\ req = NoRequest
    /\ reply = NoReply
    /\ edits = 0

\* get_all_camera_data with no valid cache, as far as it concerns the camera
IndexCamera ==
    /\ cpc = "disk"
    /\ all_data' = [cam \in {cam_name} |-> CameraIndex(tree)]
    /\ cpc' = "indexed"
    /\ UNCHANGED <<tree, req, reply, edits>>
    /\ UNCHANGED <<cam_name, filename, response, mpc>>
    /\ UNCHANGED <<configVars, cacheVars, streamVars>>

\* lines 365 and 434: video_url = f"/media/{cam_name}/{file}", requested
FollowMediaLink ==
    /\ cpc = "indexed"
    /\ mpc = "request"
    /\ \E kind \in Kinds :
          \E i \in DOMAIN Flat(all_data[cam_name], kind) :
              /\ filename' = Flat(all_data[cam_name], kind)[i].path
              /\ response' = serve_media(cam_name, filename')
    /\ mpc' = "done"
    /\ UNCHANGED cam_name
    /\ MediaFrame

-----------------------------------------------------------------------------
(* Specifications: one per part of the program *)

MediaStart == ConfigDefault /\ RouteIdle /\ MediaInit /\ CacheIdle /\ StreamIdle

MediaNext == ServeMedia

MediaSpec == MediaStart /\ [][MediaNext]_vars

CacheStart == ConfigDefault /\ RouteIdle /\ MediaIdle /\ CacheInit /\ StreamIdle

CacheNext ==
    \/ \E t \in Threads : ReadNow(t)
    \/ \E t \in Threads : CheckCache(t)
    \/ \E t \in Threads : ReturnHit(t)
    \/ \E t \in Threads : ListDir(t)
    \/ \E t \in Threads : Walk(t)
    \/ \E t \in Threads : StoreCache(t)
    \/ \E t \in Threads : StoreTime(t)
    \/ Tick
    \/ RootChanges
    \/ CamChanges

CacheSpec == CacheStart /\ [][CacheNext]_vars

StreamStart == ConfigDefault /\ RouteIdle /\ MediaIdle /\ CacheIdle /\ StreamInit

StreamNext ==
    \/ Spawn
    \/ SpawnFails
    \/ ReadChunk
    \/ ReadEOF
    \/ ReadFails
    \/ Pull
    \/ CloseSuspended
    \/ CloseCreated
    \/ CloseStdout
    \/ CloseStderr
    \/ Terminate
    \/ ProcWrite
    \/ ProcWriteErr
    \/ ProcExit
    \/ ProcDies

StreamSpec == StreamStart /\ [][StreamNext]_vars

\* the thread that runs the generator goes through the finally block once
\* it has entered it, and a process sent SIGTERM dies
StreamFairSpec ==
    /\ StreamSpec
    /\ WF_vars(CloseStdout) /\ WF_vars(CloseStderr) /\ WF_vars(Terminate)
    /\ WF_vars(ProcDies)

\* a consumer that keeps pulling: the first next() is made, every yield is
\* followed by the next next() or by close(), a read returns when there is
\* data or the end of the file, the finally block is gone through, and the
\* process takes a step whenever it can
StreamProgressSpec ==
    /\ StreamSpec
    /\ WF_vars(Spawn \/ SpawnFails)
    /\ WF_vars(Pull)
    /\ WF_vars(ReadChunk) /\ WF_vars(ReadEOF)
    /\ WF_vars(CloseStdout) /\ WF_vars(CloseStderr) /\ WF_vars(Terminate)
    /\ WF_vars(ProcWrite \/ ProcWriteErr \/ ProcExit)
    /\ WF_vars(ProcDies)

\* the whole program: any of its parts
IndexStart ==
    /\ ConfigDefault
    /\ RouteInit
    /\ MediaIdle
    /\ CacheIdle
    /\ StreamIdle

IndexNext ==
    \/ BuildIndex
    \/ RemoveFile
    \/ AddFile

IndexSpec == IndexStart /\ [][IndexNext]_vars

RouteStart ==
    /\ cams_prefix = DefaultPrefix
    /\ host_tz \in HostZones
    /\ RouteInit
    /\ MediaIdle
    /\ CacheIdle
    /\ StreamIdle

RouteNext ==
    \/ BuildIndex
    \/ CameraDetail
    \/ CameraVideosDates
    \/ CameraVideosFiles
    \/ CameraVideoViewer
    \/ CameraPhotosDates
    \/ CameraPhotosFiles
    \/ CameraPhotoViewer

RouteSpec == RouteStart /\ [][RouteNext]_vars

\* serve_media under a configured prefix
ConfigStart ==
    /\ cams_prefix \in Prefixes
    /\ host_tz = 0
    /\ cam_name \in CamNames \cup { <<"door", "1">> }
    /\ filename \in PathsOfLen(1)
    /\ response = NoResponse
    /\ mpc = "request"
    /\ RouteIdle
    /\ CacheIdle
    /\ StreamIdle

ConfigNext == ServeMedia

ConfigSpec == ConfigStart /\ [][ConfigNext]_vars

\* an indexed file requested through the link of its viewer
RoundTripStart ==
    /\ ConfigDefault
    /\ RoundTripInit
    /\ CacheIdle
    /\ StreamIdle

RoundTripNext ==
    \/ IndexCamera
    \/ FollowMediaLink

RoundTripSpec == RoundTripStart /\ [][RoundTripNext]_vars

Init ==
    \/ MediaStart \/ CacheStart \/ StreamStart \/ IndexStart \/ RouteStart
    \/ ConfigStart \/ RoundTripStart

Next ==
    \/ MediaNext \/ CacheNext \/ StreamNext \/ IndexNext \/ RouteNext
    \/ RoundTripNext

Spec == Init /\ [][Next]_vars

-----------------------------------------------------------------------------
(* Claims about serve_media *)

Served == mpc = "done" /\ response.body \in {"send_file", "transcode"}

\* the directory of camera cam, as path components
CameraRoot(cam) == Components(cams_directory) \o <<cam>>

\* path lies strictly below the directory of camera cam, component by component
StrictlyBelow(path, cam) ==
    /\ Len(Components(path)) > Len(CameraRoot(cam))
    /\ SubSeq(Components(path), 1, Len(CameraRoot(cam))) = CameraRoot(cam)

\* the depth below the start after each component of a relative path, or -1
\* once a ".." has stepped above the start
RECURSIVE DepthAfter(_, _)
DepthAfter(comps, depth) ==
    IF comps = <<>> THEN depth
    ELSE IF Head(comps) = <<>> \/ Head(comps) = <<Dot>> THEN DepthAfter(Tail(comps), depth)
    ELSE IF Head(comps) = DotDot
         THEN IF depth = 0 THEN -1 ELSE DepthAfter(Tail(comps), depth - 1)
    ELSE DepthAfter(Tail(comps), depth + 1)

\* the requested path has ".." segments that leave the camera directory
LeavesRoot(fn) == DepthAfter(Split(fn), 0) = -1

\* C1: every file the media route serves lies strictly below the directory
\* of the camera named in the request.
C1_ServedBelowCameraRoot ==
    Served => StrictlyBelow(response.path, cam_name)

\* C2: a requested path whose ".." segments leave the camera directory is
\* answered with the path-escapes-root outcome ("Invalid file path"), never
\* served, never reported as not found.
C2_TraversalRejected ==
    (mpc = "done" /\ StartsWith(cam_name, <<"cam">>) /\ LeavesRoot(filename))
        => response.body = "Invalid file path"

-----------------------------------------------------------------------------
(* Claims about get_all_camera_data *)

Rebuilding == {t \in Threads : InRebuild(t)}

\* the rebuild that produced a cached index
BuildOf(index) == builds[index.id]

\* C3: at most one rebuild is in flight at any time, and a rebuild that
\* published its index is not followed by another one within the
\* time-to-live.
C3_SingleFlight ==
    /\ Cardinality(Rebuilding) <= 1
    /\ \A i, j \in 1..Len(builds) :
          (i < j /\ ~builds[i].raised) => builds[j].at - builds[i].at >= CACHE_TTL

\* C4: a caller that finds an index cached whose age, by its own `now`, is
\* below 300 s goes on to return, and otherwise to rebuild; the caller that
\* returns on a hit returns the object in the cache, has run no rebuild, and
\* changes neither cache field.
C4_CacheHit ==
    [][\A t \in Threads :
         /\ (tpc[t] = "check" /\ tpc'[t] # "check") =>
               IF camera_data_cache # None /\ tnow[t] - camera_data_cache_time < 300
               THEN /\ tpc'[t] = "ret_hit"
                    /\ UNCHANGED <<camera_data_cache, camera_data_cache_time, builds>>
               ELSE tpc'[t] = "list"
         /\ (tpc[t] = "ret_hit" /\ tpc'[t] # "ret_hit") =>
               /\ tpc'[t] = "done"
               /\ tret'[t] = [kind |-> "index", index |-> camera_data_cache]
               /\ tbuild[t] = 0 /\ tdata[t] = <<>>
               /\ \A b \in 1..Len(builds) : builds[b].by # t
               /\ UNCHANGED <<camera_data_cache, camera_data_cache_time, builds>>
      ]_vars

\* a request was answered from the cache with an index that another
\* request built, some time after it was built
C4_Witness ==
    \E t \in Threads :
        /\ tpc[t] = "done"
        /\ tret[t].kind = "index"
        /\ BuildOf(tret[t].index).by # t
        /\ clock > BuildOf(tret[t].index).at

\* C5: whenever a caller is about to read the cache, the cached index and the
\* cached build time belong to the same rebuild.
C5_FieldsTogether ==
    \A t \in Threads :
        (tpc[t] \in {"check", "ret_hit"} /\ camera_data_cache # None)
            => BuildOf(camera_data_cache).at = camera_data_cache_time

\* C6: a call whose rebuild could not list cams_directory while an index was
\* cached returns that index, and the cache keeps it.
C6_StaleOnFailure ==
    \A b \in 1..Len(builds) :
        (builds[b].raised /\ builds[b].had # None) =>
            /\ tret[builds[b].by] = [kind |-> "index", index |-> builds[b].had]
            /\ camera_data_cache # None

\* C7: the cached index has no camera whose directory was unreadable when it
\* was walked, and it has every camera whose directory was readable.
C7_UnavailableOmitted ==
    camera_data_cache # None =>
        \A cam \in DOMAIN BuildOf(camera_data_cache).saw :
            cam \in DOMAIN camera_data_cache.cams
                <=> BuildOf(camera_data_cache).saw[cam] = "readable"

-----------------------------------------------------------------------------
(* Claims about serve_media.generate *)

\* C8: a stream that spawned its process and ended has run its cleanup
\* exactly once: both pipes are closed and the process was terminated.  The
\* cleanup never runs twice, and never for a stream without a process.
C8_CleanupExactlyOnce ==
    /\ cleanups <= 1
    /\ cleanups = 1 => (spawns = 1 /\ gpc = "done")
    /\ (gpc = "done" /\ spawns > 0) =>
          /\ cleanups = 1
          /\ handles = {}
          /\ proc.state \in {"signalled", "exited"}

\* a stream the consumer closed after some chunks, cleaned up
C8_Witness ==
    /\ gpc = "done"
    /\ ending = "close"
    /\ yielded # <<>>
    /\ cleanups = 1

\* C9: once the consumer has closed the generator, no further read is made
\* and no further chunk is yielded, and the process eventually runs no more.
C9_CancelStops ==
    /\ [][cancelled => (reads' = reads /\ yielded' = yielded)]_vars
    /\ (cancelled ~> ~ProcAlive)

\* a closed stream whose process was still running and died of the SIGTERM
C9_Witness ==
    /\ cancelled
    /\ proc.state = "exited"
    /\ proc.code = "sigterm"
    /\ proc.next <= proc.total

\* C10: a stream whose process exited with an error status, or exited
\* before any output, ends with a failure the consumer can tell from a
\* normal end; the process is spawned at most once.
C10_FailureSurfaced ==
    /\ spawns <= 1
    /\ (gpc = "done" /\ ending = "eof" /\ (proc.code # "zero" \/ yielded = <<>>))
          => outcome \notin {"ok", "none"}

-----------------------------------------------------------------------------
(* More claims about get_all_camera_data *)

\* the cameras a finished walk has indexed: every listed entry with the prefix
ListedCameras == {DirEntries[i] : i \in {k \in 1..Len(DirEntries) : HasPrefix(DirEntries[k])}}

CompleteIndex(index) == DOMAIN index.cams = ListedCameras

\* C11: the cached index and every index a caller got is the result of a
\* finished walk over all cameras with the prefix, also while another
\* rebuild is under way; an index, once stored in the cache, keeps its
\* content: the cache changes only by getting another object.
C11_OnlyCompleteIndexes ==
    /\ [](/\ camera_data_cache # None => CompleteIndex(camera_data_cache)
          /\ \A t \in Threads :
                tret[t].kind = "index" =>
                    /\ CompleteIndex(tret[t].index)
                    /\ tret[t].index.id = camera_data_cache.id
                          => tret[t].index = camera_data_cache)
    /\ [][camera_data_cache'.id = camera_data_cache.id
             => camera_data_cache' = camera_data_cache]_vars

\* an index is cached and was returned to a caller while another thread is
\* in the middle of its walk, with a part of the cameras indexed
C11_Witness ==
    \E t, u \in Threads :
        /\ tpc[t] = "walk"
        /\ DOMAIN tdata[t] # {}
        /\ DOMAIN tdata[t] # ListedCameras
        /\ tret[u].kind = "index"
        /\ camera_data_cache # None

-----------------------------------------------------------------------------
(* More claims about the generator of serve_media *)

\* what the process has written to its standard output so far
Output == [i \in 1..(IF proc = NoProc THEN 0 ELSE proc.next - 1) |-> i]

IsPrefix(s, t) == Len(s) <= Len(t) /\ SubSeq(t, 1, Len(s)) = s

\* C18: the chunks yielded so far, in the order they were yielded, are always
\* a prefix of what the process has written; when the loop has ended at the
\* end of the file, they are all the process has written, and when the
\* process completed with status 0 that is its whole output.
C18_YieldedIsPrefix ==
    /\ IsPrefix(yielded, Output)
    /\ ending = "eof" => yielded = Output
    /\ (ending = "eof" /\ proc.code = "zero") => Len(yielded) = proc.total

\* a stream of several chunks read to the end of a process that completed
C18_Witness ==
    /\ ending = "eof"
    /\ proc.code = "zero"
    /\ Len(yielded) = proc.total
    /\ Len(yielded) > PipeCap

-----------------------------------------------------------------------------
(* Claims about the index of a camera directory *)

\* the index of the camera, built from the directory as it is now
Indexed == cpc = "indexed"
TheIndex == all_data[TheCamera]

KindOf(path) ==
    IF is_extension_in_list(Basename(path), ImageExts) THEN "photos"
    ELSE IF is_extension_in_list(Basename(path), VideoExts) THEN "videos"
    ELSE "none"

\* the places <<date, position>> of a bucket collection
Places(by_date) ==
    UNION { { <<d, k>> : k \in DOMAIN by_date[d] } : d \in DOMAIN by_date }

\* how often a relative path occurs in the flat mappings and in the buckets
InFlat(index, path) ==
    Cardinality(UNION { { <<kind, i>> : i \in { k \in DOMAIN Flat(index, kind) :
                                                 Flat(index, kind)[k].path = path } } :
                        kind \in Kinds })
InBuckets(index, path) ==
    Cardinality(UNION { { <<kind, pl>> : pl \in { q \in Places(Buckets(index, kind)) :
                                 Buckets(index, kind)[q[1]][q[2]].path = path } } :
                        kind \in Kinds })

\* a file walked later has the same kind and the same whole second
Shadowed(i) ==
    \E j \in DOMAIN tree :
        /\ j > i
        /\ KindOf(tree[j].path) = KindOf(tree[i].path)
        /\ Timestamp(tree[j].mtime) = Timestamp(tree[i].mtime)

\* C12 as stated: every file classified as photo or video has its relative
\* path in exactly one flat mapping and in exactly one date bucket, also
\* when files of one kind share a whole second.
C12_EveryClassifiedFileIndexed ==
    Indexed =>
        \A i \in DOMAIN tree :
            KindOf(tree[i].path) # "none" =>
                /\ InFlat(TheIndex, tree[i].path) = 1
                /\ InBuckets(TheIndex, tree[i].path) = 1

\* C12, amended: a classified file has its relative path exactly once in
\* the flat mapping of its kind and in exactly one date bucket, unless a
\* file of the same kind with the same whole-second timestamp was walked
\* after it: then it is in neither; files of no kind are in neither.
C12_LastOfASecondIndexed ==
    Indexed =>
        \A i \in DOMAIN tree :
            LET n == IF KindOf(tree[i].path) = "none" \/ Shadowed(i) THEN 0 ELSE 1
            IN /\ InFlat(TheIndex, tree[i].path) = n
               /\ InBuckets(TheIndex, tree[i].path) = n
               /\ n = 1 =>
                    \E k \in DOMAIN Flat(TheIndex, KindOf(tree[i].path)) :
                        Flat(TheIndex, KindOf(tree[i].path))[k] =
                            [ts |-> Timestamp(tree[i].mtime), path |-> tree[i].path]

\* two photos modified in the same second, and a video, indexed
C12_Witness ==
    /\ Indexed
    /\ \E i, j \in DOMAIN tree :
          /\ i < j
          /\ KindOf(tree[i].path) = "photos"
          /\ KindOf(tree[j].path) = "photos"
          /\ tree[i].mtime # tree[j].mtime
          /\ Timestamp(tree[i].mtime) = Timestamp(tree[j].mtime)
          /\ InFlat(TheIndex, tree[j].path) = 1
    /\ Len(TheIndex.videos) = 1

\* the calendar date of a timestamp in the canonical timezone
CanonicalDate(ts) == (ts + CET) \div SecondsPerDay

\* C13: in the index, each entry of a flat mapping is at exactly one place
\* of the buckets of its kind, in the bucket of the canonical date of its
\* timestamp, and every bucket element is an entry of the flat mapping.
C13_FlatAndBucketsInBijection ==
    Indexed =>
        \A kind \in Kinds :
            LET flat    == Flat(TheIndex, kind)
                by_date == Buckets(TheIndex, kind)
            IN /\ \A i \in DOMAIN flat :
                     /\ Cardinality({ pl \in Places(by_date) :
                                        by_date[pl[1]][pl[2]] = flat[i] }) = 1
                     /\ \A pl \in Places(by_date) :
                            by_date[pl[1]][pl[2]] = flat[i]
                                => pl[1] = CanonicalDate(flat[i].ts)
               /\ \A pl \in Places(by_date) :
                     \E i \in DOMAIN flat : flat[i] = by_date[pl[1]][pl[2]]

\* on a host in UTC, photos indexed on two dates, one of them taken late in
\* the evening of the day before in UTC
C13_Witness ==
    /\ Indexed
    /\ host_tz = 0
    /\ Len(TheIndex.photos) = 2
    /\ Cardinality(DOMAIN TheIndex.photos_by_date) = 2
    /\ \E i \in DOMAIN TheIndex.photos :
          DateIn(TheIndex.photos[i].ts, 0) # CanonicalDate(TheIndex.photos[i].ts)

Ascending(s, key(_)) == \A i, j \in DOMAIN s : i < j => key(s[i]) < key(s[j])
TsOf(e) == e.ts
Same(d) == d

\* C20: in the index, also the one built after files were removed from or
\* added to the directory, each date bucket is in ascending order of
\* timestamp and each date list is in ascending order, without duplicates,
\* and holds exactly the dates of the buckets, none of which is empty.
C20_BucketsAndDatesSorted ==
    Indexed =>
        \A kind \in Kinds :
            LET by_date == Buckets(TheIndex, kind)
                dates   == DateList(TheIndex, kind)
            IN /\ \A d \in DOMAIN by_date :
                     /\ by_date[d] # <<>>
                     /\ Ascending(by_date[d], TsOf)
               /\ Ascending(dates, Same)
               /\ { dates[i] : i \in DOMAIN dates } = DOMAIN by_date
               /\ DOMAIN by_date =
                     { CanonicalDate(Flat(TheIndex, kind)[i].ts) :
                         i \in DOMAIN Flat(TheIndex, kind) }

\* an index rebuilt after a change of the directory, in which the walk
\* found the photos of one date latest first, and photos of two dates
C20_Witness ==
    /\ Indexed
    /\ edits > 0
    /\ \E i, j \in DOMAIN TheIndex.photos :
          /\ i < j
          /\ TheIndex.photos[i].ts > TheIndex.photos[j].ts
          /\ CanonicalDate(TheIndex.photos[i].ts) = CanonicalDate(TheIndex.photos[j].ts)
    /\ Len(TheIndex.video_dates) = 1

-----------------------------------------------------------------------------
(* Claims about the camera routes *)

Answered(routes) == cpc = "done" /\ req.route \in routes

KindOfRoute ==
    IF req.route \in {"camera_videos_dates", "camera_videos_files", "camera_video_viewer"}
    THEN "videos" ELSE "photos"

\* C14: dates are those of the canonical timezone whatever the zone of the
\* host, and the pages agree with the index: the page of dates of a kind
\* lists the dates of the index, the page of files of a date lists the
\* bucket of that date, and the viewer opens for (date, i) the i-th entry
\* of that page, counted from 0.
C14_ListingsAgreeWithViewer ==
    /\ (Answered({"camera_videos_dates", "camera_photos_dates"}) /\ reply.status = 200)
          => reply.list = DateList(all_data[req.cam], KindOfRoute)
    /\ (Answered({"camera_videos_files", "camera_photos_files"}) /\ reply.status = 200)
          => /\ \A i \in DOMAIN reply.list :
                   /\ CanonicalDate(reply.list[i].ts) = req.date
                   /\ camera_viewer(req.cam, KindOfRoute, req.date, i - 1).status = 200
                   /\ camera_viewer(req.cam, KindOfRoute, req.date, i - 1).entry
                         = reply.list[i]
             /\ req.date \in DOMAIN Buckets(all_data[req.cam], KindOfRoute)
                   => reply.list = Buckets(all_data[req.cam], KindOfRoute)[req.date]

CameraRoutes ==
    {"camera_detail", "camera_videos_dates", "camera_photos_dates",
     "camera_videos_files", "camera_photos_files",
     "camera_video_viewer", "camera_photo_viewer"}

\* the request names something the index does not have
NotInIndex ==
    \/ req.cam \notin DOMAIN all_data
    \/ /\ req.route \in {"camera_videos_files", "camera_photos_files",
                         "camera_video_viewer", "camera_photo_viewer"}
       /\ req.date \notin DOMAIN Buckets(all_data[req.cam], KindOfRoute)
    \/ /\ req.route \in {"camera_video_viewer", "camera_photo_viewer"}
       /\ req.idx >= Len(Buckets(all_data[req.cam], KindOfRoute)[req.date])

\* C16: no camera route ends in an unhandled failure, and a request for a
\* camera with the prefix that is not in the index, for a date without
\* files or for a file index past the end of its date is answered 404.
C16_NotFoundNeverFailure ==
    Answered(CameraRoutes) =>
        /\ reply.status # 500
        /\ (~InvalidName(req.cam) /\ NotInIndex) => reply.status = 404

\* C19: the viewer of a file of the index shows its page and links to a
\* file of the other kind whenever there is one; the link leads to an entry of the bucket of its canonical
\* date, at the position the link names, and no file of the other kind is
\* nearer in time to the file shown.
C19_NearestLink ==
    (Answered({"camera_video_viewer", "camera_photo_viewer"}) /\ ~InvalidName(req.cam)
        /\ ~NotInIndex) =>
        LET data   == all_data[req.cam]
            others == Flat(data, OtherKind(KindOfRoute))
            by_date == Buckets(data, OtherKind(KindOfRoute))
        IN /\ reply.status = 200
           /\ others = <<>> => reply.link = NoLink
           /\ others # <<>> =>
                /\ reply.link.kind = OtherKind(KindOfRoute)
                /\ reply.link.date \in DOMAIN by_date
                /\ reply.link.idx + 1 \in DOMAIN by_date[reply.link.date]
                /\ LET target == by_date[reply.link.date][reply.link.idx + 1]
                   IN /\ CanonicalDate(target.ts) = reply.link.date
                      /\ \E i \in DOMAIN others : others[i] = target
                      /\ \A i \in DOMAIN others :
                            Abs(target.ts - reply.entry.ts)
                               <= Abs(others[i].ts - reply.entry.ts)

\* a video shown between two photos of which the later one is nearer, on
\* another date than the video's in the zone of the host
C19_Witness ==
    /\ Answered({"camera_video_viewer"})
    /\ reply.status = 200
    /\ Len(all_data[req.cam].photos) = 2
    /\ \E i \in DOMAIN all_data[req.cam].photos :
          /\ all_data[req.cam].photos[i].ts < reply.entry.ts
          /\ all_data[req.cam].photos[i].ts
                # all_data[req.cam].photos_by_date[reply.link.date][reply.link.idx + 1].ts
    /\ all_data[req.cam].photos_by_date[reply.link.date][reply.link.idx + 1].ts
          > reply.entry.ts
    /\ reply.link.idx = 0

-----------------------------------------------------------------------------
(* Claims about serve_media and the configuration *)

\* C17: serve_media answers a path that leaves the camera directory with
\* 404 "Invalid file path" whether or not it exists, a path inside it that
\* does not exist with 404 "File not found" whatever its extension, and an
\* existing file inside it whose extension is no image or video extension
\* with 415; it answers 415 only for a path that exists inside the camera
\* directory.
C17_ChecksInOrder ==
    (mpc = "done" /\ StartsWith(cam_name, <<"cam">>)) =>
        LET path    == abs_media_path(cam_name, filename)
            escapes == ~WithinCamDir(path, abs_cam_dir(cam_name))
        IN /\ escapes => (response.status = 404 /\ response.body = "Invalid file path")
           /\ (~escapes /\ ~exists(path))
                 => (response.status = 404 /\ response.body = "File not found")
           /\ (~escapes /\ path \in DiskFiles
                 /\ Lower(splitext_ext(path)) \notin ImageExts \cup VideoExts)
                 => (response.status = 415 /\ response.body = "Unsupported file type")
           /\ response.status = 415 => (~escapes /\ exists(path))
           /\ response.body = "Unsupported file type" <=> response.status = 415

\* the text file of the camera, asked for by a path that is normalised
C17_Witness ==
    /\ mpc = "done"
    /\ response.status = 415
    /\ abs_media_path(cam_name, filename) \in DiskFiles
    /\ Len(Split(filename)) > 1

\* C15: whatever prefix is configured, serve_media rejects a camera name as
\* invalid exactly when the name does not begin with that prefix, the test
\* by which get_all_camera_data chooses the directories it indexes.
C15_ValidationUsesConfiguredPrefix ==
    mpc = "done" =>
        (response.body = "Invalid camera name" <=> ~HasPrefix(cam_name))

-----------------------------------------------------------------------------
(* Claims about the order of the rebuilds *)

\* C22: the cached build time never goes back, and the cached index is only
\* replaced by the index of a rebuild that started later than the rebuild
\* that produced it (rebuilds are numbered in the order they start).
C22_CacheNeverGoesBack ==
    [][/\ camera_data_cache_time' >= camera_data_cache_time
       /\ camera_data_cache'.id >= camera_data_cache.id]_vars

-----------------------------------------------------------------------------
(* Claims about the progress of a stream *)

\* the process waits in a write to its full standard error, the pipe of its
\* standard output is empty and the generator waits in its read
StuckOnStderr ==
    /\ gpc = "read"
    /\ pipe = <<>>
    /\ proc.state = "blocked"
    /\ "stderr" \in handles

\* C23: a stream whose process was started and whose consumer does not
\* close it eventually ends with the finally block gone through, whatever
\* the process writes to its standard error.
C23_StreamEnds ==
    (spawns = 1) ~> (cancelled \/ (gpc = "done" /\ cleanups = 1))

\* the same without the case of the full standard error: the stream ends,
\* or is closed, or is stuck on the standard error
EndsUnlessStuckOnStderr ==
    (spawns = 1) ~> (cancelled \/ (gpc = "done" /\ cleanups = 1) \/ StuckOnStderr)

-----------------------------------------------------------------------------
(* Claims about the way from the index to serve_media *)

\* the file a relative path of the index stands for
IndexedFile(cam, rel_path) == join(cams_directory, cam) \o <<Slash>> \o rel_path

\* C21: serve_media, asked for an indexed file by the camera and the
\* relative path the index has for it, serves or transcodes exactly that
\* file; it does not answer 404 or 415.
C21_IndexedFileServed ==
    (cpc = "indexed" /\ mpc = "done") =>
        /\ response.body \in {"send_file", "transcode"}
        /\ response.path = IndexedFile(cam_name, filename)

============================================================================
